---- MODULE Spec2Model ----
(***************************************************************************)
(* T-shirt designer: the element store, the view filter, the placement     *)
(* gestures and the export workflow of src/src/App.tsx (Designer),         *)
(* src/src/hooks/useExport.ts (useExport) and                              *)
(* src/src/components/ExportModal.tsx (ExportModal).                       *)
(*                                                                         *)
(* One action is one browser event handled to completion: the handler, the *)
(* microtasks it queues and the re-render that follows.  A closure that is *)
(* called later (FileReader.onload, the continuation of an await) carries  *)
(* the values of the render that created it.                               *)
(***************************************************************************)
EXTENDS Integers, Sequences, FiniteSets, TLC

\* ---------------------------------------------------------------- bounds
MaxAdds == 2        \* elements created in one run (ids 1..MaxAdds)
MaxPending == 1     \* FileReader loads in flight at once
MaxAttempts == 2    \* export attempts started in one run
MaxTimers == 1      \* pending "open the modal" timeouts

\* ------------------------------------------------------ program constants
Views == {"front", "back", "sleeve-left", "sleeve-right"}
Formats == {"png", "jpg", "pdf"}
RotationMin == 0
RotationMax == 360
InitialX == 100
InitialY == 100
ImageSize == 150
NullId == 0
Null == "null"
CaptureFailedMessage == "Failed to capture the design canvas."
DefaultExportMessage == "Export failed. Please try again."

\* ------------------------------------------------------- bounded inputs
ViewInputs == {"front", "back"}                  \* view buttons pressed
RotationInputs == {-45, 90, 400}                 \* values given to the range control
DragPositions == {<<20, 30>>}                    \* positions reported on release
ResizePositions == {<<100, 100>>, <<80, 100>>}   \* origin kept, or moved by a left handle
ContentInputs == {"HELLO"}                       \* text typed in the editor
PxSizes == {"120px"}                             \* ref.style sizes in pixels
\* the preview container when capture starts: measured with a size, measured
\* with a width or height of zero, or ref.current not set (never so while the
\* Designer is mounted, as it is when a button of the modal is pressed)
Containers == {"ok", "zero", "missing"}
MountedContainers == {"ok", "zero"}
\* what the encoder may throw: an Error with a message, or a value that is
\* not an Error
EncoderThrows == {[isError |-> TRUE, message |-> "The operation is insecure."],
                  [isError |-> FALSE, message |-> ""]}

VARIABLES
    config,           \* [view]: the active view (App.tsx:85)
    elements,         \* the element store, in insertion order (App.tsx:89)
    selectedId,       \* the selected element's id, or NullId (App.tsx:90)
    showExportModal,  \* App.tsx:92
    isExporting,      \* useExport.ts:21
    exportError,      \* useExport.ts:22
    readers,          \* FileReader loads in flight: the closures of reader.onload
    openTimers,       \* setTimeout callbacks of handleOpenExport not yet run
    exports,          \* exportAsFile calls in flight
    downloads,        \* downloads triggered so far
    nextId,           \* the next id Math.random yields
    attempts,         \* export attempts started so far
    addsDone,         \* elements that entered the store
    removesDone,      \* removals of an id that was in the store
    scenario          \* progress of: text on front, switch to back, image

vars == <<config, elements, selectedId, showExportModal, isExporting, exportError,
          readers, openTimers, exports, downloads, nextId, attempts,
          addsDone, removesDone, scenario>>

storeVars == <<elements, readers, nextId, addsDone, removesDone>>
exportVars == <<isExporting, exportError, exports, downloads, attempts>>

\* ------------------------------------------------------------- elements
Number(n) == <<"number", n>>
CssString(s) == <<"string", s>>
Auto == CssString("auto")

Ids(els) == {els[i].id : i \in 1..Len(els)}

Init ==
    /\ config = [view |-> "front"]
    /\ elements = <<>>
    /\ selectedId = NullId
    /\ showExportModal = FALSE
    /\ isExporting = FALSE
    /\ exportError = Null
    /\ readers = <<>>
    /\ openTimers = 0
    /\ exports = {}
    /\ downloads = 0
    /\ nextId = 1
    /\ attempts = 0
    /\ addsDone = 0
    /\ removesDone = 0
    /\ scenario = 0

\* ---------------------------------------------------------- element store
\* Math.random().toString(36).substr(2, 9).  Nothing compares the string with
\* the ids given out before.  RandomIds are the strings the generator may
\* yield; RandomId is its draw in a session in which no draw repeats.
RandomIds == 1..MaxAdds
RandomId == nextId

NewText(id) ==
    [id |-> id, type |-> "text", content |-> "YOUR TEXT",
     x |-> InitialX, y |-> InitialY, width |-> Auto, height |-> Auto,
     rotation |-> 0, view |-> config.view]

\* the closure of reader.onload holds the view of the render that made it
NewImage(id, closure) ==
    [id |-> id, type |-> "image", content |-> "data:image",
     x |-> InitialX, y |-> InitialY,
     width |-> Number(ImageSize), height |-> Number(ImageSize),
     rotation |-> 0, view |-> closure.view]

\* { ...el, ...updates }
Merge(el, updates) ==
    [f \in (DOMAIN el) \cup (DOMAIN updates) |->
        IF f \in DOMAIN updates THEN updates[f] ELSE el[f]]

UpdateEveryElement(els, id, updates) ==
    [i \in 1..Len(els) |-> Merge(els[i], updates)]

\* elements.map((el) => (el.id === id ? { ...el, ...updates } : el))
UpdateElement(els, id, updates) ==
    [i \in 1..Len(els) |-> IF els[i].id = id THEN Merge(els[i], updates) ELSE els[i]]

\* elements.filter((el) => el.id !== id)
RemoveElement(els, id) == SelectSeq(els, LAMBDA el : el.id # id)

FilterNothing(els, view) == els

\* elements.filter((el) => el.view === config.view)
FilterByView(els, view) == SelectSeq(els, LAMBDA el : el.view = view)

filteredElements == FilterByView(elements, config.view)

\* elements.find((e) => e.id === selectedId), as the set of its results
selectedElement == {elements[i] : i \in {j \in 1..Len(elements) : elements[j].id = selectedId}}

\* the editor panel is rendered: selectedId && selectedElement
EditorShown == selectedId # NullId /\ selectedElement # {}

RemoveAt(s, i) == [j \in 1..(Len(s) - 1) |-> IF j < i THEN s[j] ELSE s[j + 1]]

\* ids still to be given out, one kept for every load in flight
IdsLeft == MaxAdds - (nextId - 1) - Len(readers)

\* the observer of the scenario "text on front, switch to back, add an image"
ScenarioAfter(event) ==
    CASE event = "text" /\ scenario = 0 -> 1
      [] event = "back" /\ scenario = 1 -> 2
      [] event = "file" /\ scenario = 2 -> 3
      [] event = "load" /\ scenario = 3 -> 4
      [] OTHER -> -1

\* addText, id being what Math.random yields
AddTextAs(id) ==
    /\ IdsLeft > 0
    /\ elements' = Append(elements, NewText(id))
    /\ selectedId' = id
    /\ nextId' = nextId + 1
    /\ addsDone' = addsDone + 1
    /\ scenario' = ScenarioAfter("text")
    /\ UNCHANGED <<config, showExportModal, readers, openTimers, removesDone>>
    /\ UNCHANGED exportVars

AddText == AddTextAs(RandomId)

\* a file is chosen: reader.onload is created by this render and called later
HandleImageUpload ==
    /\ Len(readers) < MaxPending
    /\ IdsLeft > 0
    /\ readers' = Append(readers, [elements |-> elements, view |-> config.view])
    /\ scenario' = ScenarioAfter("file")
    /\ UNCHANGED <<config, elements, selectedId, showExportModal, openTimers, nextId,
                   addsDone, removesDone>>
    /\ UNCHANGED exportVars

\* setElements([...elements, newImage]) with the closure's elements
OnloadElements(closure, image) == Append(closure.elements, image)

\* reader.onload, id being what Math.random yields
ReaderOnloadAs(i, id) ==
    /\ i \in 1..Len(readers)
    /\ elements' = OnloadElements(readers[i], NewImage(id, readers[i]))
    /\ selectedId' = id
    /\ nextId' = nextId + 1
    /\ readers' = RemoveAt(readers, i)
    /\ addsDone' = addsDone + 1
    /\ scenario' = ScenarioAfter("load")
    /\ UNCHANGED <<config, showExportModal, openTimers, removesDone>>
    /\ UNCHANGED exportVars

ReaderOnload(i) == ReaderOnloadAs(i, RandomId)

\* onMouseDown of a rendered element
MouseDown(id) ==
    /\ id \in Ids(filteredElements)
    /\ selectedId' = id
    /\ UNCHANGED <<config, showExportModal, openTimers, scenario>>
    /\ UNCHANGED storeVars
    /\ UNCHANGED exportVars

Commit(id, updates) ==
    /\ elements' = UpdateElement(elements, id, updates)
    /\ scenario' = -1
    /\ UNCHANGED <<config, selectedId, showExportModal, openTimers, readers, nextId,
                   addsDone, removesDone>>
    /\ UNCHANGED exportVars

\* onDragStop of the element under the pointer
DragStop(id, d) ==
    /\ id \in Ids(filteredElements)
    /\ selectedId = id
    /\ Commit(id, [x |-> d[1], y |-> d[2]])

\* the sizes the resize control reports in ref.style: a size in pixels, or
\* "auto" for a side that was auto and that the gesture did not change
StyleSizes(size) == {CssString(s) : s \in PxSizes} \cup (IF size = Auto THEN {Auto} ELSE {})

ResizeUpdatesMovingView(w, h, position) ==
    [width |-> w, height |-> h, x |-> position[1], y |-> position[2],
     view |-> "sleeve-left"]

\* onResizeStop: width and height are ref.style.width and ref.style.height
ResizeUpdates(w, h, position) ==
    [width |-> w, height |-> h, x |-> position[1], y |-> position[2]]

ResizeStop(id, w, h, position) ==
    /\ id \in Ids(filteredElements)
    /\ selectedId = id
    /\ \E el \in selectedElement : w \in StyleSizes(el.width) /\ h \in StyleSizes(el.height)
    /\ Commit(id, ResizeUpdates(w, h, position))

\* the editor's text field
EditContent(text) ==
    /\ EditorShown
    /\ \E el \in selectedElement : el.type = "text"
    /\ Commit(selectedId, [content |-> text])

RangeValueUnclamped(raw) == raw

\* <input type="range" min="0" max="360">: the control's value is the input
\* brought into [min, max]
RangeValue(raw) ==
    IF raw < RotationMin THEN RotationMin
    ELSE IF raw > RotationMax THEN RotationMax ELSE raw

\* onChange of the rotation control: parseInt(e.target.value)
Rotate(raw) ==
    /\ EditorShown
    /\ Commit(selectedId, [rotation |-> RangeValue(raw)])

\* the editor's delete button: deleteElement(selectedId)
DeleteElement ==
    /\ EditorShown
    /\ elements' = RemoveElement(elements, selectedId)
    /\ selectedId' = NullId
    /\ removesDone' = removesDone + 1
    /\ scenario' = -1
    /\ UNCHANGED <<config, showExportModal, openTimers, readers, nextId, addsDone>>
    /\ UNCHANGED exportVars

\* a button of the view switcher
SwitchView(v) ==
    /\ config' = [config EXCEPT !.view = v]
    /\ selectedId' = NullId
    /\ scenario' = IF v = "back" THEN ScenarioAfter("back") ELSE -1
    /\ UNCHANGED <<showExportModal, openTimers>>
    /\ UNCHANGED storeVars
    /\ UNCHANGED exportVars

\* a click on the canvas container where no element is (lines 539-562): no
\* handler is attached to the container or to the print area, so nothing of
\* the Designer's state changes; the click is an event outside the scenario
CanvasClick ==
    /\ scenario' = -1
    /\ UNCHANGED <<config, selectedId, showExportModal, openTimers>>
    /\ UNCHANGED storeVars
    /\ UNCHANGED exportVars

StoreNext ==
    \/ AddText
    \/ HandleImageUpload
    \/ \E i \in 1..MaxPending : ReaderOnload(i)
    \/ \E id \in 1..MaxAdds : MouseDown(id)
    \/ \E id \in 1..MaxAdds, d \in DragPositions : DragStop(id, d)
    \/ \E id \in 1..MaxAdds, w, h \in StyleSizes(Auto), p \in ResizePositions :
          ResizeStop(id, w, h, p)
    \/ \E text \in ContentInputs : EditContent(text)
    \/ \E raw \in RotationInputs : Rotate(raw)
    \/ DeleteElement
    \/ \E v \in ViewInputs : SwitchView(v)

StoreSpec == Init /\ [][StoreNext]_vars

\* the operations that decide which elements a view shows and how they are
\* rotated: adds, removals, selection, the rotation control, view switches
ViewNext ==
    \/ AddText
    \/ HandleImageUpload
    \/ \E i \in 1..MaxPending : ReaderOnload(i)
    \/ \E id \in 1..MaxAdds : MouseDown(id)
    \/ \E raw \in RotationInputs : Rotate(raw)
    \/ DeleteElement
    \/ \E v \in ViewInputs : SwitchView(v)

ViewSpec == Init /\ [][ViewNext]_vars

\* the events that set or clear the selection
SelectNext ==
    \/ AddText
    \/ HandleImageUpload
    \/ \E i \in 1..MaxPending : ReaderOnload(i)
    \/ \E id \in 1..MaxAdds : MouseDown(id)
    \/ DeleteElement
    \/ \E v \in ViewInputs : SwitchView(v)
    \/ CanvasClick

SelectSpec == Init /\ [][SelectNext]_vars

\* the same operations in a session in which Math.random may repeat a draw
RandomNext ==
    \/ \E id \in RandomIds : AddTextAs(id)
    \/ HandleImageUpload
    \/ \E i \in 1..MaxPending, id \in RandomIds : ReaderOnloadAs(i, id)
    \/ \E id \in RandomIds : MouseDown(id)
    \/ DeleteElement
    \/ \E v \in ViewInputs : SwitchView(v)

RandomSpec == Init /\ [][RandomNext]_vars

\* updateElement and deleteElement called as functions, with any id: one the
\* generator yields, or one that it never yields and no element has
CallIds == 1..(MaxAdds + 1)
UpdateInputs ==
    {[x |-> d[1], y |-> d[2]] : d \in DragPositions}
        \cup {[rotation |-> 90]} \cup {[content |-> text] : text \in ContentInputs}

UpdateElementCall(id, updates) ==
    /\ id \in CallIds
    /\ Commit(id, updates)

DeleteElementCall(id) ==
    /\ elements' = RemoveElement(elements, id)
    /\ selectedId' = NullId
    /\ removesDone' = IF id \in Ids(elements) THEN removesDone + 1 ELSE removesDone
    /\ scenario' = -1
    /\ UNCHANGED <<config, showExportModal, openTimers, readers, nextId, addsDone>>
    /\ UNCHANGED exportVars

CallNext ==
    \/ \E id \in RandomIds : AddTextAs(id)
    \/ \E id \in CallIds, updates \in UpdateInputs : UpdateElementCall(id, updates)
    \/ \E id \in CallIds : DeleteElementCall(id)

CallSpec == Init /\ [][CallNext]_vars

\* --------------------------------------------------------- export workflow
ErrorKeptAtStart == exportError

\* exportAsFile, line 58 and 59: setIsExporting(true); setExportError(null)
BusyAtStart == TRUE
ErrorAtStart == Null

\* line 64: the error thrown when captureCanvas yields null
CaptureError == [isError |-> TRUE, message |-> CaptureFailedMessage]

ThrownMessageOfAny(err) == err.message

\* line 105: err instanceof Error ? err.message : 'Export failed. Please try again.'
ThrownMessage(err) == IF err.isError THEN err.message ELSE DefaultExportMessage

\* handleExportFormat after the await: if (!exportError) setShowExportModal(false),
\* exportError being the value of the render that created the callback
ModalAfter(task) ==
    IF task.viaModal /\ task.closureError = Null THEN FALSE ELSE showExportModal

\* exportAsFile from the end of captureCanvas to its return, and the caller's
\* continuation: the download or the catch block, then the finally block
Return(task, ok, err) ==
    /\ exports' = exports \ {task}
    /\ downloads' = IF ok THEN downloads + 1 ELSE downloads
    /\ exportError' = IF ok THEN exportError ELSE ThrownMessage(err)
    /\ isExporting' = FALSE
    /\ showExportModal' = ModalAfter(task)

NewExport(format, container, viaModal) ==
    [n |-> attempts + 1, format |-> format, container |-> container,
     viaModal |-> viaModal, closureError |-> IF viaModal THEN exportError ELSE Null,
     phase |-> "render", decodable |-> FALSE]

\* exportAsFile up to the first await of captureCanvas.  Without a container
\* captureCanvas returns null at once and the call returns in the same turn.
Start(format, container, viaModal) ==
    /\ attempts < MaxAttempts
    /\ attempts' = attempts + 1
    /\ IF container = "missing"
       THEN Return(NewExport(format, container, viaModal), FALSE, CaptureError)
       ELSE /\ exports' = exports \cup {NewExport(format, container, viaModal)}
            /\ isExporting' = BusyAtStart
            /\ exportError' = ErrorAtStart
            /\ UNCHANGED <<downloads, showExportModal>>
    /\ UNCHANGED <<config, elements, selectedId, readers, openTimers, nextId, addsDone,
                   removesDone, scenario>>

\* the Export Design button (disabled while isExporting)
HandleOpenExport ==
    /\ ~isExporting
    /\ openTimers < MaxTimers
    /\ selectedId' = NullId
    /\ openTimers' = openTimers + 1
    /\ UNCHANGED <<config, showExportModal, scenario>>
    /\ UNCHANGED storeVars
    /\ UNCHANGED exportVars

\* setTimeout(() => setShowExportModal(true), 50)
OpenTimerFires ==
    /\ openTimers > 0
    /\ openTimers' = openTimers - 1
    /\ showExportModal' = TRUE
    /\ UNCHANGED <<config, selectedId, scenario>>
    /\ UNCHANGED storeVars
    /\ UNCHANGED exportVars

\* onClose: the backdrop or the X button of the modal
CloseModal ==
    /\ showExportModal
    /\ showExportModal' = FALSE
    /\ UNCHANGED <<config, selectedId, openTimers, scenario>>
    /\ UNCHANGED storeVars
    /\ UNCHANGED exportVars

\* a format button of the modal is enabled (disabled={isExporting})
FormatButtonEnabled == showExportModal /\ ~isExporting

\* handleExportFormat, from a format button of the modal
HandleExportFormat(format, container) ==
    /\ FormatButtonEnabled
    /\ Start(format, container, TRUE)

\* domtoimage.toPng settles: rejected (captureCanvas catches and yields null),
\* or resolved with a data URL that the browser can or cannot decode
ToPngSettles(task, resolved, decodable) ==
    /\ task \in exports
    /\ task.phase = "render"
    /\ IF resolved
       THEN /\ exports' = (exports \ {task}) \cup
                          {[task EXCEPT !.phase = "decode", !.decodable = decodable]}
            /\ UNCHANGED <<isExporting, exportError, downloads, showExportModal>>
       ELSE Return(task, FALSE, CaptureError)
    /\ UNCHANGED <<config, elements, selectedId, readers, openTimers, nextId, attempts,
                   addsDone, removesDone, scenario>>

\* the jpg branch draws the captured canvas on a second one (line 83), which
\* throws for a canvas with a side of zero
EncoderMustThrow(task) == task.format = "jpg" /\ task.container = "zero"

\* img.onload: the canvas is drawn and returned, the file is encoded and the
\* download triggered, unless the encoder throws
ImgOnload(task, thrown) ==
    /\ task \in exports
    /\ task.phase = "decode"
    /\ task.decodable
    /\ EncoderMustThrow(task) => thrown # {}
    /\ IF thrown = {} THEN Return(task, TRUE, CaptureError)
       ELSE \E err \in thrown : Return(task, FALSE, err)
    /\ UNCHANGED <<config, elements, selectedId, readers, openTimers, nextId, attempts,
                   addsDone, removesDone, scenario>>

ExportStep ==
    \/ \E task \in exports, resolved, decodable \in BOOLEAN :
          ToPngSettles(task, resolved, decodable)
    \/ \E task \in exports, thrown \in {{}} \cup {{e} : e \in EncoderThrows} :
          ImgOnload(task, thrown)

ModalNext ==
    \/ HandleOpenExport
    \/ OpenTimerFires
    \/ CloseModal
    \/ \E format \in Formats, container \in MountedContainers :
          HandleExportFormat(format, container)
    \/ ExportStep

\* the operations of the editor that the export workflow runs between
EditorNext ==
    \/ AddText
    \/ \E text \in ContentInputs : EditContent(text)
    \/ DeleteElement
    \/ \E v \in ViewInputs : SwitchView(v)

ExportNext == ModalNext \/ EditorNext

ExportSpec == Init /\ [][ExportNext]_vars

ModalSpec == Init /\ [][ModalNext]_vars

\* the export workflow with the events that select an element: an add, a
\* press, and the completion of an image load, which needs no user action
CaptureNext ==
    \/ ModalNext
    \/ AddText
    \/ HandleImageUpload
    \/ \E i \in 1..MaxPending : ReaderOnload(i)
    \/ \E id \in 1..MaxAdds : MouseDown(id)

CaptureSpec == Init /\ [][CaptureNext]_vars

\* the browser's event loop delivers the settling of a pending promise and
\* the load event of a decodable image
FairModalSpec ==
    /\ ModalSpec
    /\ WF_vars(ExportStep)

\* the functions useExport returns, called by any component that uses the hook
ExportAsFile(format, container) ==
    /\ format \in Formats
    /\ Start(format, container, FALSE)

\* exportComposite(format, views): await exportAsFile(format)
ExportComposite(format, views, container) ==
    /\ views \subseteq Views
    /\ ExportAsFile(format, container)

HookNext ==
    \/ \E format \in Formats, container \in Containers : ExportAsFile(format, container)
    \/ \E format \in Formats, container \in Containers, views \in SUBSET Views :
          ExportComposite(format, views, container)
    \/ ExportStep

HookSpec == Init /\ [][HookNext]_vars

Next == StoreNext \/ ModalNext \/ CanvasClick

Spec == Init /\ [][Next]_vars

\* ------------------------------------------------------------ properties

\* the export leaves flight in this step: exportAsFile returns
Returned(task) == task \in exports /\ \A other \in exports' : other.n # task.n

\* C1: at most one export is in flight at any time, whoever asks for it
\* (exportAsFile, exportComposite or the modal).
C1_SingleExportInFlight == Cardinality(exports) <= 1

C3_ModalFollowsOutcome ==
    [][\A task \in exports : (Returned(task) /\ task.viaModal) =>
          /\ downloads' = downloads + 1 => ~showExportModal'
          /\ downloads' = downloads => showExportModal' = showExportModal]_vars

\* C4: the error message is null while an export is busy, and it changes only
\* when an attempt starts (to null) or returns with a failure (to its message):
\* nothing else clears or replaces it.
C4_ErrorRetained ==
    /\ [](isExporting => exportError = Null)
    /\ [][exportError' # exportError =>
            \/ attempts' = attempts + 1 /\ exportError' = Null
            \/ \E task \in exports : Returned(task) /\ downloads' = downloads]_vars

\* the busy phase of a second attempt, the first having failed, with an
\* element added to the store
C4_Witness ==
    isExporting /\ attempts = 2 /\ downloads = 0 /\ exportError = Null /\ elements # <<>>

\* C5: every export attempt eventually returns the workflow to Idle.
C5_EventuallyIdle == isExporting ~> ~isExporting

\* C6: an attempt whose container is unavailable or measured with a zero side
\* returns with a non-empty error message and without a download.
C6_NoContainerNoFile ==
    [][\A task \in exports : (Returned(task) /\ task.container # "ok") =>
          downloads' = downloads /\ exportError' \notin {Null, ""}]_vars

\* C7: the number of elements is the number of completed adds minus the number
\* of removes of ids that were present.
C7_CountIsAddsMinusRemoves == Len(elements) = addsDone - removesDone

\* C8: the view filter yields exactly the elements of the store whose view is
\* the active one, in insertion order (ids are given out in that order); after
\* text on front, a switch to back and an image, front holds the text element
\* alone and back the image alone.
C8_FilterIsViewSubsequence ==
    /\ \A i \in 1..Len(filteredElements) :
          /\ filteredElements[i].view = config.view
          /\ \E j \in 1..Len(elements) : elements[j] = filteredElements[i]
    /\ Ids(filteredElements) =
          {elements[j].id : j \in {k \in 1..Len(elements) : elements[k].view = config.view}}
    /\ Len(filteredElements) = Cardinality(Ids(filteredElements))
    /\ \A i, j \in 1..Len(filteredElements) :
          i < j => filteredElements[i].id < filteredElements[j].id
    /\ scenario = 4 =>
          /\ Len(FilterByView(elements, "front")) = 1
          /\ FilterByView(elements, "front")[1].type = "text"
          /\ filteredElements = FilterByView(elements, "back")
          /\ Len(filteredElements) = 1
          /\ filteredElements[1].type = "image"

\* the scenario has run to its end
C8_Witness == scenario = 4 /\ Len(elements) = 2

\* C9: the rotation of every element of the store is within [0, 360].
C9_RotationInRange ==
    \A i \in 1..Len(elements) :
        elements[i].rotation >= RotationMin /\ elements[i].rotation <= RotationMax

\* an input above the range was committed
C9_Witness == \E i \in 1..Len(elements) : elements[i].rotation = RotationMax

Fixed(els, id) ==
    \A i \in 1..Len(els) : els[i].id = id => els[i].width # Auto /\ els[i].height # Auto

\* C10: a resize leaves the element with a fixed width and height, and an
\* element whose width and height are fixed never has the auto marker again.
C10_ResizedStaysFixed ==
    [][\A id \in Ids(elements) :
          /\ (\E w, h \in StyleSizes(Auto), p \in ResizePositions :
                 ResizeStop(id, w, h, p)) => Fixed(elements', id)
          /\ Fixed(elements, id) => Fixed(elements', id)]_vars

\* the elements of the store that carry the id
Holders(id) == {i \in 1..Len(elements) : elements[i].id = id}

\* C11: the selection is none or the id of exactly one element of the store,
\* whatever adds, deletes, view switches, presses and image loads came before;
\* a delete leaves the selection none.
C11_SelectionValid ==
    /\ [](selectedId # NullId => Cardinality(Holders(selectedId)) = 1)
    /\ [][removesDone' = removesDone + 1 => selectedId' = NullId]_vars

\* C12: the ids of the elements in the store are pairwise distinct.
C12_IdsDistinct == Cardinality(Ids(elements)) = Len(elements)

\* C13: the view of an element is the one it was created with: no step gives
\* an id of the store another view (drags, resizes, rotations, edits, view
\* switches, adds, removals), and an element that a late image load brings
\* back has the view it had.
C13_ViewFixedAtCreation ==
    /\ [](\A c \in 1..Len(readers), j \in 1..Len(elements) :
            \A i \in 1..Len(readers[c].elements) :
                readers[c].elements[i].id = elements[j].id
                    => readers[c].elements[i].view = elements[j].view)
    /\ [][\A i \in 1..Len(elements), j \in 1..Len(elements') :
            elements[i].id = elements'[j].id => elements[i].view = elements'[j].view]_vars

\* an element of the back view after a drag, a resize and a rotation, with
\* the front view active
C13_Witness ==
    /\ config.view = "front"
    /\ \E i \in 1..Len(elements) :
          /\ elements[i].view = "back"
          /\ elements[i].x = 20
          /\ elements[i].width # Auto
          /\ elements[i].rotation = 90

\* the element is the old one with the fields of updates replaced
MergedFrom(new, old, updates) ==
    /\ DOMAIN new = DOMAIN old
    /\ \A f \in DOMAIN old : new[f] = IF f \in DOMAIN updates THEN updates[f] ELSE old[f]

\* C14: update and remove with an id that no element has leave the store as
\* it is; update with an id of the store keeps the store's length and order,
\* replaces the given fields of the element with that id and nothing else,
\* and leaves every element with another id as it is.
C14_UnknownIdNoOp ==
    [][/\ \A id \in CallIds, updates \in UpdateInputs :
             UpdateElementCall(id, updates) =>
                 /\ id \notin Ids(elements) => elements' = elements
                 /\ Len(elements') = Len(elements)
                 /\ \A i \in 1..Len(elements) :
                       IF elements[i].id = id
                       THEN MergedFrom(elements'[i], elements[i], updates)
                       ELSE elements'[i] = elements[i]
       /\ \A id \in CallIds :
             DeleteElementCall(id) => (id \notin Ids(elements) => elements' = elements)]_vars

\* two elements, the first rotated by an update, and no selection although
\* nothing was removed: deleteElement was called with an id no element has
C14_Witness ==
    /\ Len(elements) = 2
    /\ elements[1].rotation = 90
    /\ elements[2].rotation = 0
    /\ removesDone = 0
    /\ selectedId = NullId

\* C15: when the capture of an export starts, no element is selected.
C15_NoSelectionAtCapture ==
    [][attempts' = attempts + 1 => selectedId = NullId]_vars

\* C16: after a view switch and after a click on empty canvas no element is
\* selected.
C16_SelectionCleared ==
    [][((\E v \in ViewInputs : SwitchView(v)) \/ CanvasClick) => selectedId' = NullId]_vars

\* C17: an element enters the store with the view that is active at that
\* moment, for a text and for an image whose load completes later.
C17_InsertedInActiveView ==
    [][addsDone' = addsDone + 1 =>
          /\ elements' # <<>>
          /\ elements'[Len(elements')].view = config.view]_vars

\* C18: every add appends to the store as it is when the add is committed:
\* the elements before the step are all there after it, unchanged and in
\* order, followed by the new one.
C18_NoLostMutation ==
    [][addsDone' = addsDone + 1 =>
          /\ Len(elements') = Len(elements) + 1
          /\ SubSeq(elements', 1, Len(elements)) = elements]_vars

\* C19: a selected element belongs to the active view.
C19_SelectedInActiveView ==
    \A el \in selectedElement : el.view = config.view
====
